---- MODULE Spec2Model ----
(***************************************************************************)
(* Order / payment reconciliation core of the garments backend             *)
(* (OrderService in services/orderService.js).                             *)
(*                                                                         *)
(* The storage (Prisma) tables the service touches are the state:          *)
(*   stock      ProductVariant.stock per variant                           *)
(*   usedCount  Coupon.usedCount of the one coupon of the catalog          *)
(*   orders     Order rows, keyed by order id                              *)
(*   history    TrackingHistory rows per order, in insertion order         *)
(*   catalog    Product prices and the Coupon row's terms                  *)
(* Three specifications run the same handlers:                             *)
(*   Spec      every handler runs to completion as one action              *)
(*   SpecConc  requests run concurrently; every awaited storage or gateway *)
(*             call of a handler is one step of the request                *)
(*   SpecPricing  calculateOrderTotals over a range of catalogs            *)
(* Numbers that hold money are counted in ten-thousandths of a rupee, so   *)
(* that rounding to two decimals is visible.                               *)
(***************************************************************************)
EXTENDS Integers, Sequences, FiniteSets, TLC

\* ---------------------------------------------------------------- bounds
InitStock   == 1    \* stock of every variant in the initial catalog
MaxHistory  == 4    \* TrackingHistory rows per order
MaxAdminRows == 2   \* admin status updates act on histories shorter than this
MaxConfirms == 2    \* success confirmations processed per order
UsageLimit  == 2    \* Coupon.usageLimit of the catalog's coupon
MaxRequests == 3    \* requests served in a run of the concurrent specification
MaxPrice    == 2    \* SpecPricing: product prices range over 0 .. MaxPrice rupees

\* ---------------------------------------------------------------- catalog
None == "none"

Variants == {"V1", "V2"}

ProductStatus == [P1 |-> "ACTIVE", P2 |-> "INACTIVE"]

CouponCode == "SAVE10"

Line(p, v, q) == [productId |-> p, productVariantId |-> v, quantity |-> q]

\* The carts clients send: one line, the same variant on two lines, a line
\* without a variant next to one with, a product that is not ACTIVE, a
\* product the catalog does not have, and two units of one variant.
Checkout(items, code) == [items |-> items, couponCode |-> code]

Checkouts ==
  { Checkout(<< Line("P1", "V1", 1) >>, None),
    Checkout(<< Line("P1", "V1", 1), Line("P1", "V1", 1) >>, CouponCode),
    Checkout(<< Line("P1", "V2", 1), Line("P1", None, 1) >>, CouponCode),
    Checkout(<< Line("P2", "V2", 1) >>, None),
    Checkout(<< Line("P0", "V1", 1) >>, None),
    Checkout(<< Line("P1", "V1", 2) >>, None) }

Statuses ==
  {"PENDING", "CONFIRMED", "PROCESSING", "SHIPPED", "DELIVERED", "CANCELLED", "REFUNDED"}

\* The statuses the admin requests in updateOrderStatus: a backward move, two
\* terminal ones, and one that is no status at all.
AdminStatuses == {"PENDING", "DELIVERED", "REFUNDED", "BOGUS"}

\* What phonepeService.checkPaymentStatus answers.
GatewayStatuses ==
  { [success |-> TRUE,  code |-> "PAYMENT_SUCCESS"],
    [success |-> FALSE, code |-> "PAYMENT_ERROR"],
    [success |-> FALSE, code |-> "PAYMENT_FAILED"],
    [success |-> FALSE, code |-> "PAYMENT_PENDING"] }

\* The code a callback body carries: what the gateway would send, or what a
\* forger would.
CallbackCodes == {"PAYMENT_SUCCESS", "PAYMENT_ERROR"}

\* What phonepeService.processRefund does.
RefundOutcomes == {"success", "declined", "throws"}

\* The totals a client sends along in orderData: the quote for one P1 at 100,
\* and the same quote doctored down to a total of 1.
ClientTotals ==
  { [subtotal |-> 1000000, discount |-> 0, shippingCost |-> 0, totalAmount |-> 1000000],
    [subtotal |-> 1000000, discount |-> 990000, shippingCost |-> 0, totalAmount |-> 10000] }

\* The razorpay_signature values clients send, and the verdict of
\* razorpayService.verifyPayment on them.
Signatures == {"sig_ok", "sig_forged"}

\* The payments the gateway holds: one for the intent initiateRazorpayPayment
\* created for one unit of P1 (100), one for an intent createPaymentOrder
\* created with the amount 1.  The signature is the HMAC of the two ids.
GatewayPayments ==
  { [ razorpay_order_id |-> "order_quote", razorpay_payment_id |-> "pay",
      razorpay_signature |-> "sig_ok", amount |-> 1000000 ],
    [ razorpay_order_id |-> "order_small", razorpay_payment_id |-> "pay_small",
      razorpay_signature |-> "sig_small", amount |-> 10000 ] }

\* razorpayService.verifyPayment on the triple a request carries: the
\* signature is the one the gateway issued for the two ids.
verifyPayment(razorpay_signature) ==
  \E p \in GatewayPayments : p.razorpay_signature = razorpay_signature

\* The payment a verified signature belongs to.
PaymentOf(razorpay_signature) ==
  CHOOSE p \in GatewayPayments : p.razorpay_signature = razorpay_signature

VARIABLES
  catalog,    \* [price: per product, coupon: the Coupon row's terms]
  stock,      \* [Variants -> Int]
  usedCount,  \* Nat
  orders,     \* [created order ids -> Order row]
  history,    \* [created order ids -> Seq(status)]
  sold,       \* history variable: units decremented per variant, in total
  confirms,   \* history variable: per order, times the success branch ran
  refunds,    \* history variable: per order, successful processRefund calls
  last,       \* outcome of the handler that returned last
  pre,        \* history variable: the tables as that handler found them
  reqs,       \* SpecConc: the requests in progress, each with its locals
  served      \* SpecConc: requests started so far

vars == << catalog, stock, usedCount, orders, history, sold, confirms, refunds, last,
           pre, reqs, served >>

\* The tables as they are now.
Snapshot ==
  [stock |-> stock, usedCount |-> usedCount, orders |-> orders, history |-> history]

\* The requests the server works on at the same time.
Procs == {"r1", "r2"}

\* Order ids of the concurrent specification.
ConcOrderIds == {1, 2}

\* The checkouts clients send in the concurrent specification: every variant
\* on one line only, so that what goes wrong is the interleaving.
ConcCheckouts ==
  { Checkout(<< Line("P1", "V1", 1) >>, CouponCode),
    Checkout(<< Line("P1", "V2", 1), Line("P1", None, 1) >>, None) }

\* Order ids of the run-to-completion specification: one order's whole life.
OrderIds == {1}

Created == DOMAIN orders

\* ---------------------------------------------------------------- pricing
\* calculateOrderTotals, one cart line: the checks of the loop body.
LineError(stk, line) ==
  IF line.quantity <= 0 THEN "InvalidItem"
  ELSE IF line.productId \notin DOMAIN ProductStatus THEN "ProductNotFound"
  ELSE IF ProductStatus[line.productId] # "ACTIVE" THEN "ProductUnavailable"
  ELSE IF line.productVariantId = None THEN "ok"
  ELSE IF line.productVariantId \notin DOMAIN stk THEN "VariantNotFound"
  ELSE IF stk[line.productVariantId] < line.quantity THEN "InsufficientStock"
  ELSE "ok"

\* The first line of the cart that fails, as the loop meets it.
RECURSIVE CartError(_, _)
CartError(stk, items) ==
  IF items = << >> THEN "ok"
  ELSE IF LineError(stk, Head(items)) # "ok" THEN LineError(stk, Head(items))
  ELSE CartError(stk, Tail(items))

\* A nullable number column is << >> when null and << n >> when n.
\* JavaScript's truthiness of such a value: null and 0 are falsy.
JsTruthy(x) == x # << >> /\ x[1] # 0

\* x || 0 on a nullable number.
OrZero(x) == IF JsTruthy(x) THEN x[1] ELSE 0

\* The number n (rupees, a percentage) in ten-thousandths.
Num(n) == n * 10000

\* parseFloat(x.toFixed(2)): x rounded to two decimals, halves away from zero.
toFixed2(x) ==
  IF x >= 0 THEN ((x + 50) \div 100) * 100
            ELSE 0 - (((0 - x) + 50) \div 100) * 100

\* const price = product.offerPrice || product.normalPrice
UnitPrice(productId) ==
  IF JsTruthy(catalog.price[productId].offerPrice)
    THEN Num(catalog.price[productId].offerPrice[1])
    ELSE Num(catalog.price[productId].normalPrice)

\* Mutant of Subtotal: the sum starts from the subtotal of the call before.
RECURSIVE Subtotal_CarriesOver(_)
Subtotal_CarriesOver(items) ==
  IF items = << >> THEN last.totals.subtotal
  ELSE UnitPrice(Head(items).productId) * Head(items).quantity
       + Subtotal_CarriesOver(Tail(items))

\* let subtotal = 0; subtotal += price * item.quantity over the cart.
RECURSIVE Subtotal(_)
Subtotal(items) ==
  IF items = << >> THEN 0
  ELSE UnitPrice(Head(items).productId) * Head(items).quantity + Subtotal(Tail(items))

\* prisma.coupon.findFirst of calculateOrderTotals: the coupon row matched.
FindCoupon(used, code) ==
  IF /\ code = CouponCode
     /\ catalog.coupon.isActive
     /\ catalog.coupon.inWindow
     /\ (catalog.coupon.usageLimit = << >> \/ catalog.coupon.usageLimit[1] > used)
    THEN CouponCode ELSE None

\* The discount a matched coupon gives on a subtotal.
Discount(subtotal, coupon) ==
  LET c == catalog.coupon
      pct == (subtotal * c.discountValue) \div 100
  IN IF coupon = None THEN 0
     ELSE IF subtotal >= Num(OrZero(c.minOrderAmount))
       THEN IF c.discountType = "PERCENTAGE"
              THEN IF JsTruthy(c.maxDiscount) /\ pct > Num(c.maxDiscount[1])
                     THEN Num(c.maxDiscount[1]) ELSE pct
              ELSE Num(c.discountValue)
     ELSE 0

NoTotals == [subtotal |-> 0, discount |-> 0, shippingCost |-> 0, totalAmount |-> 0]

\* The amounts calculateOrderTotals returns for a cart that prices.
PriceCart(items, coupon) ==
  LET subtotal == Subtotal(items)
      discount == Discount(subtotal, coupon)
      shippingCost == 0
  IN [ subtotal     |-> toFixed2(subtotal),
       discount     |-> toFixed2(discount),
       shippingCost |-> toFixed2(shippingCost),
       totalAmount  |-> toFixed2(subtotal - discount + shippingCost) ]

calculateOrderTotals(stk, used, items, code) ==
  IF items = << >>
    THEN [err |-> "EmptyCart", coupon |-> None, amounts |-> NoTotals]
  ELSE IF CartError(stk, items) # "ok"
    THEN [err |-> CartError(stk, items), coupon |-> None, amounts |-> NoTotals]
  ELSE [err |-> "ok", coupon |-> FindCoupon(used, code),
        amounts |-> PriceCart(items, FindCoupon(used, code))]

\* ---------------------------------------------------------------- storage writes
\* Mutant of DecrementLine: the stock update writes nothing.
DecrementLine_Skipped(stk, line) == stk

\* prisma.productVariant.update({stock: {decrement: quantity}}) for one item.
DecrementLine(stk, line) ==
  IF line.productVariantId # None
    THEN [stk EXCEPT ![line.productVariantId] = @ - line.quantity]
    ELSE stk

\* prisma.productVariant.update({stock: {increment: quantity}}) for one item.
IncrementLine(stk, line) ==
  IF line.productVariantId # None
    THEN [stk EXCEPT ![line.productVariantId] = @ + line.quantity]
    ELSE stk

\* The "Update stock for variants" loop over the order's items.
RECURSIVE DecrementStock(_, _)
DecrementStock(stk, items) ==
  IF items = << >> THEN stk
  ELSE DecrementStock(DecrementLine(stk, Head(items)), Tail(items))

\* The "Restore stock for refunded items" loop.
RECURSIVE RestoreStock(_, _)
RestoreStock(stk, items) ==
  IF items = << >> THEN stk
  ELSE RestoreStock(IncrementLine(stk, Head(items)), Tail(items))

\* Units of variant v on the lines of a cart.
RECURSIVE Units(_, _)
Units(items, v) ==
  IF items = << >> THEN 0
  ELSE (IF Head(items).productVariantId = v THEN Head(items).quantity ELSE 0)
       + Units(Tail(items), v)

\* The row prisma.order.create writes.
NewOrder(status, paymentStatus, method, items, totals, rzp) ==
  [ status        |-> status,
    paymentStatus |-> paymentStatus,
    paymentMethod |-> method,
    items         |-> items,
    amounts       |-> totals.amounts,  \* subtotal, discount, shippingCost, totalAmount
    couponId      |-> totals.coupon,
    mtid          |-> 0,        \* phonepeMerchantTransactionId, 0 when null
    txn           |-> None,     \* phonepeTransactionId
    rzp           |-> rzp,      \* razorpayPaymentId
    sig           |-> None,     \* razorpaySignature
    old           |-> FALSE ]   \* createdAt is more than 24 hours ago

NextId == Cardinality(Created) + 1

\* The orderData a request carried: the cart, the coupon code and the totals
\* the client sent along.
NoArgs == [items |-> << >>, couponCode |-> None, totals |-> NoTotals]

\* What a handler returned: the order it was about (0 when none), its result,
\* gw, the answer of the gateway (refund endpoint, status check) when it was
\* called, body, the code of the callback body, mail, how the notification
\* dispatch went when there was one, the totals it returned, and the orderData
\* it was called with.
Result(op, oid, res) ==
  [op |-> op, oid |-> oid, res |-> res, gw |-> None, body |-> None,
   mail |-> None, totals |-> NoTotals, args |-> NoArgs]

\* Mutant of Notify: an error of the notification dispatcher is rethrown.
Notify_Propagates(res, notifyOk) ==
  IF notifyOk THEN res ELSE "NotificationFailed"

\* try { await emailNotificationService.send...(..) } catch { logger.error }:
\* what the handler returns after the dispatch went well or threw.
Notify(res, notifyOk) == res

\* The outcome of a handler that dispatched a notification before returning.
Notified(result, notifyOk) ==
  [result EXCEPT !.res = Notify(result.res, notifyOk),
                 !.mail = IF notifyOk THEN "sent" ELSE "failed"]

Extend(f, k, v) == [x \in DOMAIN f \cup {k} |-> IF x = k THEN v ELSE f[x]]

NoResp == [success |-> FALSE, code |-> None]

\* A request slot with no request in it.
Idle ==
  [ op |-> None, pc |-> "idle", items |-> << >>, code |-> None, i |-> 0,
    coupon |-> None, oid |-> 0, resp |-> NoResp, txnId |-> None, sig |-> None,
    found |-> << >>,
    row |-> NewOrder(None, None, None, << >>,
                     [coupon |-> None, amounts |-> NoTotals], None),
    applied |-> FALSE ]

\* ---------------------------------------------------------------- initial state
\* The catalog of the shop: P1 on offer at 100, and a 10% coupon.
ShopCatalog ==
  [ price  |-> [ P1 |-> [normalPrice |-> 120, offerPrice |-> << 100 >>],
                 P2 |-> [normalPrice |-> 50,  offerPrice |-> << >>] ],
    coupon |-> [ discountType |-> "PERCENTAGE", discountValue |-> 10,
                 minOrderAmount |-> << >>, maxDiscount |-> << >>,
                 isActive |-> TRUE, inWindow |-> TRUE,
                 usageLimit |-> << UsageLimit >> ] ]

Init ==
  /\ catalog = ShopCatalog
  /\ stock = [v \in Variants |-> InitStock]
  /\ usedCount = 0
  /\ orders = << >>
  /\ history = << >>
  /\ sold = [v \in Variants |-> 0]
  /\ confirms = << >>
  /\ refunds = << >>
  /\ last = Result("init", 0, "ok")
  /\ pre = [stock |-> [v \in Variants |-> InitStock], usedCount |-> 0,
            orders |-> << >>, history |-> << >>]
  /\ reqs = [r \in Procs |-> Idle]
  /\ served = 0

\* ---------------------------------------------------------------- order creation
\* Mutant of PreCreateError: a pricing failure does not stop the handler.
PreCreateError_IgnoresPricing(stk, used, items, code, uploadOk) ==
  IF ~uploadOk THEN "CustomAssetUploadFailed" ELSE "ok"

\* What the three creation paths do before prisma.order.create: pricing, then
\* the custom-image upload.
PreCreateError(stk, used, items, code, uploadOk) ==
  IF calculateOrderTotals(stk, used, items, code).err # "ok"
    THEN calculateOrderTotals(stk, used, items, code).err
  ELSE IF ~uploadOk THEN "CustomAssetUploadFailed"
  ELSE "ok"

\* order.create, the stock loop, the coupon increment and the history insert
\* of verifyAndCreateOrder and createCODOrder.
CreateConfirmed(op, row, args, notifyOk) ==
  LET o == NextId IN
  /\ o \in OrderIds
  /\ orders' = Extend(orders, o, row)
  /\ stock' = DecrementStock(stock, row.items)
  /\ sold' = [v \in Variants |-> sold[v] + Units(row.items, v)]
  /\ usedCount' = IF row.couponId # None THEN usedCount + 1 ELSE usedCount
  /\ history' = Extend(history, o, << "CONFIRMED" >>)
  /\ confirms' = Extend(confirms, o, 0)
  /\ refunds' = Extend(refunds, o, 0)
  /\ last' = Notified([Result(op, o, "ok") EXCEPT !.args = args], notifyOk)

Rejected(op, oid, res) ==
  /\ last' = Result(op, oid, res)
  /\ UNCHANGED << stock, usedCount, orders, history, sold, confirms, refunds >>

\* initiateRazorpayPayment: a quote and a gateway intent, nothing stored; the
\* totals are returned to the client in tempOrderData.
initiateRazorpayPayment(items, code) ==
  LET totals == calculateOrderTotals(stock, usedCount, items, code) IN
  /\ last' = [Result("initiateRazorpayPayment", 0, totals.err)
                EXCEPT !.totals = totals.amounts,
                       !.args = [NoArgs EXCEPT !.items = items, !.couponCode = code]]
  /\ UNCHANGED << stock, usedCount, orders, history, sold, confirms, refunds >>

\* The calculateOrderTotals request of the order controller: the service's
\* calculateOrderTotals, its result returned to the client.
calculateTotalsRequest(items, code) ==
  LET totals == calculateOrderTotals(stock, usedCount, items, code) IN
  /\ last' = [Result("calculateOrderTotals", 0, totals.err)
                EXCEPT !.totals = totals.amounts,
                       !.args = [NoArgs EXCEPT !.items = items, !.couponCode = code]]
  /\ UNCHANGED << stock, usedCount, orders, history, sold, confirms, refunds >>

\* Mutant of PersistedTotals: the totals of the client's orderData are stored.
PersistedTotals_TrustsClient(totals, clientTotals) ==
  [totals EXCEPT !.amounts = clientTotals]

\* The totals verifyAndCreateOrder hands to prisma.order.create: those it
\* computed itself, whatever orderData carries.
PersistedTotals(totals, clientTotals) == totals

verifyAndCreateOrder(razorpay_signature, items, code, clientTotals, uploadOk, notifyOk) ==
  LET err == PreCreateError(stock, usedCount, items, code, uploadOk)
      totals == calculateOrderTotals(stock, usedCount, items, code)
      args == [items |-> items, couponCode |-> code, totals |-> clientTotals]
      row == NewOrder("CONFIRMED", "PAID", "ONLINE", items,
                      PersistedTotals(totals, clientTotals),
                      IF verifyPayment(razorpay_signature)
                        THEN PaymentOf(razorpay_signature).razorpay_payment_id
                        ELSE None)
  IN IF ~verifyPayment(razorpay_signature)
       THEN Rejected("verifyAndCreateOrder", 0, "PaymentVerificationFailed")
     ELSE IF err # "ok" THEN Rejected("verifyAndCreateOrder", 0, err)
     ELSE CreateConfirmed("verifyAndCreateOrder",
            [row EXCEPT !.sig = razorpay_signature], args, notifyOk)

createCODOrder(items, code, uploadOk, notifyOk) ==
  LET err == PreCreateError(stock, usedCount, items, code, uploadOk)
      totals == calculateOrderTotals(stock, usedCount, items, code)
      args == [NoArgs EXCEPT !.items = items, !.couponCode = code]
  IN IF err # "ok" THEN Rejected("createCODOrder", 0, err)
     ELSE CreateConfirmed("createCODOrder",
            NewOrder("CONFIRMED", "PENDING", "COD", items, totals, None), args,
            notifyOk)

\* initiatePhonePePayment: the PENDING row is written before the gateway is
\* called; the merchant-transaction id is stored when the gateway answered.
initiatePhonePePayment(items, code, uploadOk, gatewayOk) ==
  LET err == PreCreateError(stock, usedCount, items, code, uploadOk)
      totals == calculateOrderTotals(stock, usedCount, items, code)
      o == NextId
      args == [NoArgs EXCEPT !.items = items, !.couponCode = code]
      row == NewOrder("PENDING", "PENDING", "ONLINE", items, totals, None)
  IN IF err # "ok" THEN Rejected("initiatePhonePePayment", 0, err)
     ELSE /\ o \in OrderIds
          /\ orders' = Extend(orders, o,
                         IF gatewayOk THEN [row EXCEPT !.mtid = o] ELSE row)
          /\ history' = Extend(history, o, << >>)
          /\ confirms' = Extend(confirms, o, 0)
          /\ refunds' = Extend(refunds, o, 0)
          /\ last' = [Result("initiatePhonePePayment", o,
                             IF gatewayOk THEN "ok" ELSE "PaymentGatewayError")
                        EXCEPT !.args = args]
          /\ UNCHANGED << stock, usedCount, sold >>

\* ---------------------------------------------------------------- async confirmation
\* prisma.order.findFirst({where: {phonepeMerchantTransactionId}}).
FindByMtid(m) == {o \in Created : orders[o].mtid = m}

\* The branch handlePhonePeCallback takes on the verified gateway status.
CallbackBranch(resp) ==
  IF resp.success /\ resp.code = "PAYMENT_SUCCESS" THEN "success"
  ELSE IF resp.code = "PAYMENT_ERROR" \/ resp.code = "PAYMENT_FAILED" THEN "failed"
  ELSE "other"

\* Whether the success branch performs the stock and coupon side effects for
\* the order row it loaded.
SideEffectsDue(row, resp) == CallbackBranch(resp) = "success"

\* updateData applied to the order row by prisma.order.update.
CallbackUpdate(row, resp, txnId) ==
  IF CallbackBranch(resp) = "success"
    THEN [row EXCEPT !.paymentStatus = "PAID", !.status = "CONFIRMED",
                     !.txn = IF txnId # None THEN txnId ELSE @]
  ELSE IF CallbackBranch(resp) = "failed"
    THEN [row EXCEPT !.paymentStatus = "FAILED"]
  ELSE row

\* Mutant of CallbackNewStatus: a failed payment cancels the order.
CallbackNewStatus_CancelsOnFailure(row, resp) ==
  IF CallbackBranch(resp) = "success" THEN "CONFIRMED"
  ELSE IF CallbackBranch(resp) = "failed" THEN "CANCELLED"
  ELSE row.status

\* newOrderStatus of handlePhonePeCallback.
CallbackNewStatus(row, resp) ==
  IF CallbackBranch(resp) = "success" THEN "CONFIRMED" ELSE row.status

\* The body of handlePhonePeCallback once the order is loaded.
CallbackEffect(o, resp, txnId) ==
  LET row == orders[o]
      due == SideEffectsDue(row, resp)
      ns  == CallbackNewStatus(row, resp)
  IN /\ due => confirms[o] < MaxConfirms
     /\ ns # row.status => Len(history[o]) < MaxHistory
     /\ stock' = IF due THEN DecrementStock(stock, row.items) ELSE stock
     /\ sold' = IF due THEN [v \in Variants |-> sold[v] + Units(row.items, v)]
                       ELSE sold
     /\ usedCount' = IF due /\ row.couponId # None THEN usedCount + 1 ELSE usedCount
     /\ confirms' = IF due THEN [confirms EXCEPT ![o] = @ + 1] ELSE confirms
     /\ orders' = [orders EXCEPT ![o] = CallbackUpdate(row, resp, txnId)]
     /\ history' = IF ns # row.status
                     THEN [history EXCEPT ![o] = Append(@, ns)]
                     ELSE history
     /\ UNCHANGED refunds

\* Mutant of VerifiedStatus: the code of the callback body is believed.
VerifiedStatus_TrustsBody(statusResponse, code) ==
  [success |-> code = "PAYMENT_SUCCESS", code |-> code]

\* The status handlePhonePeCallback branches on: the answer of the gateway's
\* status check; the code of the callback body is only stored.
VerifiedStatus(statusResponse, code) == statusResponse

\* Whether handlePhonePeCallback dispatches the order notification: when the
\* status changed, and changed to CONFIRMED.
CallbackNotifies(row, resp) ==
  /\ CallbackNewStatus(row, resp) # row.status
  /\ CallbackNewStatus(row, resp) = "CONFIRMED"

handlePhonePeCallback(m, txnId, code, resp, notifyOk) ==
  IF FindByMtid(m) = {}
    THEN Rejected("handlePhonePeCallback", 0, "OrderNotFound")
    ELSE \E o \in FindByMtid(m) :
           LET verified == VerifiedStatus(resp, code)
               result == [Result("handlePhonePeCallback", o, CallbackBranch(verified))
                            EXCEPT !.gw = resp.code, !.body = code]
           IN /\ CallbackEffect(o, verified, txnId)
              /\ last' = IF CallbackNotifies(orders[o], verified)
                           THEN Notified(result, notifyOk) ELSE result

\* checkPaymentStatus: returns the row as it is when it is PAID or when the
\* gateway does not report success; otherwise hands over to the callback
\* handler, which asks the gateway again (resp2).
checkPaymentStatus(m, resp, resp2, notifyOk) ==
  IF FindByMtid(m) = {}
    THEN Rejected("checkPaymentStatus", 0, "OrderNotFound")
    ELSE \E o \in FindByMtid(m) :
           IF orders[o].paymentStatus = "PAID"
             THEN Rejected("checkPaymentStatus", o, "alreadyPaid")
           ELSE IF resp.success /\ resp.code = "PAYMENT_SUCCESS"
                   /\ orders[o].paymentStatus # "PAID"
             THEN LET verified == VerifiedStatus(resp2, resp.code)
                      result == [Result("checkPaymentStatus", o, CallbackBranch(verified))
                                   EXCEPT !.gw = verified.code]
                  IN /\ CallbackEffect(o, verified, "txn")
                     /\ last' = IF CallbackNotifies(orders[o], verified)
                                  THEN Notified(result, notifyOk) ELSE result
           ELSE /\ last' = [Result("checkPaymentStatus", o, "unchanged")
                             EXCEPT !.gw = resp.code]
                /\ UNCHANGED << stock, usedCount, orders, history, sold, confirms,
                                refunds >>

\* ---------------------------------------------------------------- admin operations
updateOrderStatus(o, status, notifyOk) ==
  IF o \notin Created THEN Rejected("updateOrderStatus", 0, "OrderNotFound")
  ELSE IF status \notin Statuses THEN Rejected("updateOrderStatus", o, "InvalidStatus")
  ELSE /\ Len(history[o]) < MaxAdminRows
       /\ orders' = [orders EXCEPT ![o].status = status]
       /\ history' = IF status # orders[o].status
                       THEN [history EXCEPT ![o] = Append(@, status)]
                       ELSE history
       /\ last' = IF status # orders[o].status
                    THEN Notified(Result("updateOrderStatus", o, "ok"), notifyOk)
                    ELSE Result("updateOrderStatus", o, "ok")
       /\ UNCHANGED << stock, usedCount, sold, confirms, refunds >>

updateTrackingInfo(o, notifyOk) ==
  IF o \notin Created THEN Rejected("updateTrackingInfo", 0, "OrderNotFound")
  ELSE /\ Len(history[o]) < MaxAdminRows
       /\ orders' = [orders EXCEPT ![o].status = "SHIPPED"]
       /\ history' = [history EXCEPT ![o] = Append(@, "SHIPPED")]
       /\ last' = Notified(Result("updateTrackingInfo", o, "ok"), notifyOk)
       /\ UNCHANGED << stock, usedCount, sold, confirms, refunds >>

\* ---------------------------------------------------------------- refund
\* Mutant of RefundError: the "already refunded" check is missing.
RefundError_NoRefundedCheck(row) ==
  IF row.paymentStatus # "PAID" THEN "NotPaid"
  ELSE IF row.txn = None THEN "NoTransactionId"
  ELSE "ok"

\* Mutant of RefundAccepted: the success flag of the answer is not looked at.
RefundAccepted_IgnoresFlag(outcome) == outcome # "throws"

\* Mutant of RefundStock: the restore loop stops after the first item.
RefundStock_FirstItemOnly(stk, items) ==
  IF items = << >> THEN stk ELSE IncrementLine(stk, Head(items))

\* The precondition checks of processRefund, in the order the code makes them.
RefundError(row) ==
  IF row.paymentStatus # "PAID" THEN "NotPaid"
  ELSE IF row.status = "REFUNDED" THEN "AlreadyRefunded"
  ELSE IF row.txn = None THEN "NoTransactionId"
  ELSE "ok"

\* The refund goes on when phonepeService.processRefund neither threw nor
\* answered success = false.
RefundAccepted(outcome) == outcome = "success"

\* The stock rows after processRefund's restore loop.
RefundStock(stk, items) == RestoreStock(stk, items)

processRefund(o, outcome, notifyOk) ==
  IF o \notin Created THEN Rejected("processRefund", 0, "OrderNotFound")
  ELSE IF RefundError(orders[o]) # "ok"
    THEN Rejected("processRefund", o, RefundError(orders[o]))
  ELSE IF ~RefundAccepted(outcome)
    THEN /\ last' = [Result("processRefund", o, "PaymentGatewayError") EXCEPT !.gw = outcome]
         /\ UNCHANGED << stock, usedCount, orders, history, sold, confirms, refunds >>
  ELSE /\ Len(history[o]) < MaxHistory
       /\ orders' = [orders EXCEPT ![o].status = "REFUNDED",
                                   ![o].paymentStatus = "REFUNDED"]
       /\ history' = [history EXCEPT ![o] = Append(@, "REFUNDED")]
       /\ stock' = RefundStock(stock, orders[o].items)
       /\ refunds' = [refunds EXCEPT ![o] = @ + 1]
       /\ last' = Notified([Result("processRefund", o, "ok") EXCEPT !.gw = outcome],
                            notifyOk)
       /\ UNCHANGED << usedCount, sold, confirms >>

\* ---------------------------------------------------------------- sweep
\* The rows prisma.order.findMany of cancelExpiredPendingOrders selects.
ExpiredOrders ==
  {o \in Created : /\ orders[o].status = "PENDING"
                   /\ orders[o].paymentStatus = "PENDING"
                   /\ orders[o].old}

cancelExpiredPendingOrders ==
  /\ \A o \in ExpiredOrders : Len(history[o]) < MaxHistory
  /\ orders' = [o \in Created |->
                  IF o \in ExpiredOrders
                    THEN [orders[o] EXCEPT !.status = "CANCELLED",
                                           !.paymentStatus = "FAILED"]
                    ELSE orders[o]]
  /\ history' = [o \in Created |->
                   IF o \in ExpiredOrders THEN Append(history[o], "CANCELLED")
                                          ELSE history[o]]
  /\ last' = Result("cancelExpiredPendingOrders", 0, "ok")
  /\ UNCHANGED << stock, usedCount, sold, confirms, refunds >>

\* The 24-hour window of the sweep elapses for an order.
Expire(o) ==
  /\ o \in Created
  /\ ~orders[o].old
  /\ orders' = [orders EXCEPT ![o].old = TRUE]
  /\ last' = Result("clock", o, "ok")
  /\ UNCHANGED << stock, usedCount, history, sold, confirms, refunds >>

\* ---------------------------------------------------------------- Spec
Quote ==
  /\ \E c \in Checkouts : initiateRazorpayPayment(c.items, c.couponCode)
  /\ pre' = Snapshot
  /\ UNCHANGED << catalog, reqs, served >>

CalculateTotals ==
  /\ \E c \in Checkouts : calculateTotalsRequest(c.items, c.couponCode)
  /\ pre' = Snapshot
  /\ UNCHANGED << catalog, reqs, served >>

\* The creation handlers are called while the run has an order id left.
VerifyAndCreate ==
  /\ NextId \in OrderIds
  /\ \E sig \in Signatures, c \in Checkouts, ct \in ClientTotals, up \in BOOLEAN,
        n \in BOOLEAN :
       verifyAndCreateOrder(sig, c.items, c.couponCode, ct, up, n)
  /\ pre' = Snapshot
  /\ UNCHANGED << catalog, reqs, served >>

CreateCOD ==
  /\ NextId \in OrderIds
  /\ \E c \in Checkouts, up \in BOOLEAN, n \in BOOLEAN :
       createCODOrder(c.items, c.couponCode, up, n)
  /\ pre' = Snapshot
  /\ UNCHANGED << catalog, reqs, served >>

InitiateAsync ==
  /\ NextId \in OrderIds
  /\ \E c \in Checkouts, up \in BOOLEAN, gw \in BOOLEAN :
       initiatePhonePePayment(c.items, c.couponCode, up, gw)
  /\ pre' = Snapshot
  /\ UNCHANGED << catalog, reqs, served >>

\* The inputs a handler does not get to use (the transaction id and the
\* dispatcher's outcome when the payment did not succeed, the second status
\* check when the first reported no success) are not varied.
Callback ==
  /\ \E m \in OrderIds, c \in CallbackCodes, r \in GatewayStatuses :
       \E t \in (IF r.success THEN {None, "txn"} ELSE {None}),
          n \in (IF r.success THEN BOOLEAN ELSE {TRUE}) :
         handlePhonePeCallback(m, t, c, r, n)
  /\ pre' = Snapshot
  /\ UNCHANGED << catalog, reqs, served >>

Poll ==
  /\ \E m \in OrderIds, r \in GatewayStatuses :
       \E r2 \in (IF r.success THEN GatewayStatuses ELSE {r}) :
         \E n \in (IF r2.success THEN BOOLEAN ELSE {TRUE}) :
           checkPaymentStatus(m, r, r2, n)
  /\ pre' = Snapshot
  /\ UNCHANGED << catalog, reqs, served >>

UpdateStatus ==
  /\ \E o \in OrderIds, st \in AdminStatuses, n \in BOOLEAN :
       updateOrderStatus(o, st, n)
  /\ pre' = Snapshot
  /\ UNCHANGED << catalog, reqs, served >>

UpdateTracking ==
  /\ \E o \in OrderIds, n \in BOOLEAN : updateTrackingInfo(o, n)
  /\ pre' = Snapshot
  /\ UNCHANGED << catalog, reqs, served >>

Refund ==
  /\ \E o \in OrderIds, g \in RefundOutcomes :
       \E n \in (IF RefundAccepted(g) THEN BOOLEAN ELSE {TRUE}) :
         processRefund(o, g, n)
  /\ pre' = Snapshot
  /\ UNCHANGED << catalog, reqs, served >>

Sweep ==
  /\ cancelExpiredPendingOrders
  /\ pre' = Snapshot
  /\ UNCHANGED << catalog, reqs, served >>

Clock ==
  /\ \E o \in OrderIds : Expire(o)
  /\ pre' = Snapshot
  /\ UNCHANGED << catalog, reqs, served >>

Next ==
  \/ Quote
  \/ CalculateTotals
  \/ VerifyAndCreate
  \/ CreateCOD
  \/ InitiateAsync
  \/ Callback
  \/ Poll
  \/ UpdateStatus
  \/ UpdateTracking
  \/ Refund
  \/ Sweep
  \/ Clock

Spec == Init /\ [][Next]_vars

\* ---------------------------------------------------------------- SpecConc
\* One request per slot; a step is one awaited storage call of the handler.
\* Calls that touch no storage (the gateway's status check, the image upload)
\* are taken together with the storage call that follows them.

Finish(r, op, oid, res) ==
  /\ reqs' = [reqs EXCEPT ![r] = Idle]
  /\ last' = Result(op, oid, res)
  /\ UNCHANGED << catalog, pre >>

Goto(r, rec) ==
  /\ reqs' = [reqs EXCEPT ![r] = rec]
  /\ UNCHANGED << catalog, pre >>

\* A request arrives: one of the three creation handlers, a webhook callback
\* or a status poll.
StartRequest(r) ==
  /\ reqs[r].pc = "idle"
  /\ served < MaxRequests
  /\ served' = served + 1
  /\ \/ \E op \in {"verifyAndCreateOrder", "createCODOrder", "initiatePhonePePayment"},
          c \in ConcCheckouts :
          Goto(r, [Idle EXCEPT !.op = op, !.pc = "price", !.items = c.items,
                               !.code = c.couponCode, !.i = 1])
     \/ \E m \in ConcOrderIds :
          Goto(r, [Idle EXCEPT !.op = "handlePhonePeCallback", !.pc = "cb_find",
                               !.oid = m, !.txnId = "txn"])
     \/ \E m \in ConcOrderIds :
          Goto(r, [Idle EXCEPT !.op = "checkPaymentStatus", !.pc = "poll_find",
                               !.oid = m, !.txnId = "txn"])
  /\ UNCHANGED << stock, usedCount, orders, history, sold, confirms, refunds, last >>

\* calculateOrderTotals, loop body: the product and variant reads of line i.
PriceLine(r) ==
  LET q == reqs[r] IN
  /\ q.pc = "price"
  /\ IF LineError(stock, q.items[q.i]) # "ok"
       THEN Finish(r, q.op, 0, LineError(stock, q.items[q.i]))
     ELSE IF q.i < Len(q.items)
       THEN Goto(r, [q EXCEPT !.i = q.i + 1]) /\ UNCHANGED last
     ELSE Goto(r, [q EXCEPT !.pc = "coupon"]) /\ UNCHANGED last
  /\ UNCHANGED << stock, usedCount, orders, history, sold, confirms, refunds, served >>

\* calculateOrderTotals, coupon.findFirst; then the signature check's verdict
\* (verifyAndCreateOrder) and the image upload, neither of which touches storage.
ReadCoupon(r) ==
  LET q == reqs[r] IN
  /\ q.pc = "coupon"
  /\ \E sig \in Signatures, uploadOk \in BOOLEAN :
       IF q.op = "verifyAndCreateOrder" /\ ~verifyPayment(sig)
         THEN Finish(r, q.op, 0, "PaymentVerificationFailed")
       ELSE IF ~uploadOk THEN Finish(r, q.op, 0, "CustomAssetUploadFailed")
       ELSE /\ Goto(r, [q EXCEPT !.pc = "create", !.sig = sig,
                                 !.coupon = FindCoupon(usedCount, q.code)])
            /\ UNCHANGED last
  /\ UNCHANGED << stock, usedCount, orders, history, sold, confirms, refunds, served >>

\* prisma.order.create of the three creation handlers.
CreateRow(r) ==
  LET q == reqs[r]
      o == NextId
      totals == [coupon |-> q.coupon, amounts |-> PriceCart(q.items, q.coupon)]
      row == IF q.op = "verifyAndCreateOrder"
               THEN [NewOrder("CONFIRMED", "PAID", "ONLINE", q.items, totals, "pay")
                       EXCEPT !.sig = q.sig]
             ELSE IF q.op = "createCODOrder"
               THEN NewOrder("CONFIRMED", "PENDING", "COD", q.items, totals, None)
             ELSE NewOrder("PENDING", "PENDING", "ONLINE", q.items, totals, None)
  IN
  /\ q.pc = "create"
  /\ o \in ConcOrderIds
  /\ orders' = Extend(orders, o, row)
  /\ history' = Extend(history, o, << >>)
  /\ confirms' = Extend(confirms, o, 0)
  /\ refunds' = Extend(refunds, o, 0)
  /\ Goto(r, [q EXCEPT !.oid = o, !.i = 1,
                       !.pc = IF q.op = "initiatePhonePePayment" THEN "mtid" ELSE "dec"])
  /\ UNCHANGED << stock, usedCount, sold, last, served >>

\* Where a handler goes after its stock loop: the coupon increment when a
\* coupon is attached, else the order or history write.
AfterStock(q, coupon) ==
  IF q.op = "handlePhonePeCallback" \/ q.op = "checkPaymentStatus"
    THEN (IF coupon # None THEN "cb_inc" ELSE "cb_update")
    ELSE (IF coupon # None THEN "inc" ELSE "hist")

\* productVariant.update({stock: {decrement}}) for item i, in the creation
\* handlers (items of the request) and in the callback (items of the row read).
DecrementItem(r) ==
  LET q == reqs[r]
      items == IF q.pc = "dec" THEN q.items ELSE q.row.items
      coupon == IF q.pc = "dec" THEN q.coupon ELSE q.row.couponId
  IN
  /\ q.pc \in {"dec", "cb_dec"}
  /\ stock' = DecrementLine(stock, items[q.i])
  /\ sold' = [v \in Variants |->
                sold[v] + (IF items[q.i].productVariantId = v
                             THEN items[q.i].quantity ELSE 0)]
  /\ confirms' = IF q.pc = "cb_dec" /\ ~q.applied
                   THEN [confirms EXCEPT ![q.oid] = @ + 1] ELSE confirms
  /\ Goto(r, IF q.i < Len(items)
               THEN [q EXCEPT !.i = q.i + 1, !.applied = (q.pc = "cb_dec")]
               ELSE [q EXCEPT !.pc = AfterStock(q, coupon),
                              !.applied = (q.pc = "cb_dec")])
  /\ UNCHANGED << usedCount, orders, history, refunds, last, served >>

\* coupon.update({usedCount: {increment: 1}}).
IncrementCoupon(r) ==
  LET q == reqs[r] IN
  /\ q.pc \in {"inc", "cb_inc"}
  /\ usedCount' = usedCount + 1
  /\ Goto(r, [q EXCEPT !.pc = IF q.pc = "inc" THEN "hist" ELSE "cb_update"])
  /\ UNCHANGED << stock, orders, history, sold, confirms, refunds, last, served >>

\* trackingHistory.create of verifyAndCreateOrder and createCODOrder; the
\* handler returns the order.
ConfirmHistory(r) ==
  LET q == reqs[r] IN
  /\ q.pc = "hist"
  /\ history' = [history EXCEPT ![q.oid] = Append(@, "CONFIRMED")]
  /\ Finish(r, q.op, q.oid, "ok")
  /\ UNCHANGED << stock, usedCount, orders, sold, confirms, refunds, served >>

\* initiatePhonePePayment: the gateway call, then order.update storing the
\* merchant-transaction id.
StoreMtid(r) ==
  LET q == reqs[r] IN
  /\ q.pc = "mtid"
  /\ \E gatewayOk \in BOOLEAN :
       IF gatewayOk
         THEN /\ orders' = [orders EXCEPT ![q.oid].mtid = q.oid]
              /\ Finish(r, q.op, q.oid, "ok")
         ELSE /\ UNCHANGED orders
              /\ Finish(r, q.op, q.oid, "PaymentGatewayError")
  /\ UNCHANGED << stock, usedCount, history, sold, confirms, refunds, served >>

\* handlePhonePeCallback: the gateway's status check, then order.findFirst.
CallbackFind(r) ==
  LET q == reqs[r] IN
  /\ q.pc = "cb_find"
  /\ \E resp \in GatewayStatuses :
       IF FindByMtid(q.oid) = {}
         THEN Finish(r, q.op, 0, "OrderNotFound")
         ELSE LET row == orders[q.oid] IN
              /\ Goto(r, [q EXCEPT !.row = row, !.resp = resp, !.i = 1,
                            !.pc = IF SideEffectsDue(row, resp)
                                     THEN "cb_dec" ELSE "cb_update"])
              /\ UNCHANGED last
  /\ UNCHANGED << stock, usedCount, orders, history, sold, confirms, refunds, served >>

\* handlePhonePeCallback: order.update with updateData; the fields it names
\* are written onto the row as it is now.
CallbackWrite(r) ==
  LET q == reqs[r]
      now == orders[q.oid]
      upd == CallbackUpdate(q.row, q.resp, q.txnId)
  IN
  /\ q.pc = "cb_update"
  /\ orders' = [orders EXCEPT ![q.oid] =
                  IF CallbackBranch(q.resp) = "success"
                    THEN [now EXCEPT !.paymentStatus = upd.paymentStatus,
                                     !.status = upd.status, !.txn = upd.txn]
                  ELSE IF CallbackBranch(q.resp) = "failed"
                    THEN [now EXCEPT !.paymentStatus = upd.paymentStatus]
                  ELSE now]
  /\ IF CallbackNewStatus(q.row, q.resp) # q.row.status
       THEN Goto(r, [q EXCEPT !.pc = "cb_hist"]) /\ UNCHANGED last
       ELSE Finish(r, q.op, q.oid, CallbackBranch(q.resp))
  /\ UNCHANGED << stock, usedCount, history, sold, confirms, refunds, served >>

\* handlePhonePeCallback: trackingHistory.create for the status change.
CallbackHistory(r) ==
  LET q == reqs[r] IN
  /\ q.pc = "cb_hist"
  /\ history' = [history EXCEPT ![q.oid] = Append(@, CallbackNewStatus(q.row, q.resp))]
  /\ Finish(r, q.op, q.oid, CallbackBranch(q.resp))
  /\ UNCHANGED << stock, usedCount, orders, sold, confirms, refunds, served >>

\* checkPaymentStatus: order.findFirst, the PAID short cut, the gateway's
\* status check; on success the callback handler takes over.
PollFind(r) ==
  LET q == reqs[r] IN
  /\ q.pc = "poll_find"
  /\ \E resp \in GatewayStatuses :
       IF FindByMtid(q.oid) = {}
         THEN Finish(r, q.op, 0, "OrderNotFound")
       ELSE IF orders[q.oid].paymentStatus = "PAID"
         THEN Finish(r, q.op, q.oid, "alreadyPaid")
       ELSE IF resp.success /\ resp.code = "PAYMENT_SUCCESS"
         THEN Goto(r, [q EXCEPT !.pc = "cb_find"]) /\ UNCHANGED last
       ELSE Finish(r, q.op, q.oid, "unchanged")
  /\ UNCHANGED << stock, usedCount, orders, history, sold, confirms, refunds, served >>

\* A storage write of verifyAndCreateOrder or createCODOrder after
\* order.create throws (a variant row that is gone, a lost connection): the
\* handler has no try/catch and no transaction around its writes, the error
\* reaches the caller and what was written before stays.
StorageFailure(r) ==
  LET q == reqs[r] IN
  /\ q.pc \in {"dec", "inc", "hist"}
  /\ Finish(r, q.op, q.oid, "StorageError")
  /\ UNCHANGED << stock, usedCount, orders, history, sold, confirms, refunds, served >>

Step(r) ==
  \/ PriceLine(r)
  \/ ReadCoupon(r)
  \/ CreateRow(r)
  \/ DecrementItem(r)
  \/ IncrementCoupon(r)
  \/ ConfirmHistory(r)
  \/ StoreMtid(r)
  \/ CallbackFind(r)
  \/ CallbackWrite(r)
  \/ CallbackHistory(r)
  \/ PollFind(r)
  \/ StorageFailure(r)

NextConc == \E r \in Procs : StartRequest(r) \/ Step(r)

SpecConc == Init /\ [][NextConc]_vars

\* ---------------------------------------------------------------- SpecSingleUse
\* The concurrent handlers of SpecConc over a coupon that may be used once.
InitSingleUse ==
  /\ catalog = [ShopCatalog EXCEPT !.coupon.usageLimit = << 1 >>]
  /\ stock = [v \in Variants |-> InitStock]
  /\ usedCount = 0
  /\ orders = << >>
  /\ history = << >>
  /\ sold = [v \in Variants |-> 0]
  /\ confirms = << >>
  /\ refunds = << >>
  /\ last = Result("init", 0, "ok")
  /\ pre = [stock |-> stock, usedCount |-> usedCount, orders |-> << >>, history |-> << >>]
  /\ reqs = [r \in Procs |-> Idle]
  /\ served = 0

SpecSingleUse == InitSingleUse /\ [][NextConc]_vars

\* ---------------------------------------------------------------- SpecSweep
\* cancelExpiredPendingOrders one awaited storage call at a time, next to the
\* asynchronous payment flow and the clock.  The job runs in one request slot.
Cron == "r1"

\* The ids of a set of orders in the order findMany returns them.
RECURSIVE IdsOf(_)
IdsOf(S) ==
  IF S = {} THEN << >>
  ELSE LET first == CHOOSE o \in S : \A other \in S : o <= other
       IN << first >> \o IdsOf(S \ {first})

SweepStep(rec, res) ==
  /\ reqs' = [reqs EXCEPT ![Cron] = rec]
  /\ last' = Result("cancelExpiredPendingOrders", rec.oid, res)
  /\ pre' = Snapshot
  /\ UNCHANGED << catalog, stock, usedCount, sold, confirms, refunds, served >>

\* const expiredOrders = await prisma.order.findMany({where: ...})
SweepFind ==
  /\ reqs[Cron].pc = "idle"
  /\ IF ExpiredOrders = {}
       THEN SweepStep(Idle, "ok")
       ELSE SweepStep([Idle EXCEPT !.op = "cancelExpiredPendingOrders",
                                   !.pc = "sweep_update",
                                   !.found = IdsOf(ExpiredOrders), !.i = 1,
                                   !.oid = IdsOf(ExpiredOrders)[1]], "found")
  /\ UNCHANGED << orders, history >>

\* await prisma.order.update({where: {id: order.id}, data: {...}})
SweepUpdate ==
  /\ reqs[Cron].pc = "sweep_update"
  /\ orders' = [orders EXCEPT ![reqs[Cron].oid].status = "CANCELLED",
                              ![reqs[Cron].oid].paymentStatus = "FAILED"]
  /\ SweepStep([reqs[Cron] EXCEPT !.pc = "sweep_history"], "updated")
  /\ UNCHANGED history

\* await prisma.trackingHistory.create(...), then the next order of the loop.
SweepHistory ==
  LET q == reqs[Cron] IN
  /\ q.pc = "sweep_history"
  /\ Len(history[q.oid]) < MaxHistory
  /\ history' = [history EXCEPT ![q.oid] = Append(@, "CANCELLED")]
  /\ IF q.i < Len(q.found)
       THEN SweepStep([q EXCEPT !.pc = "sweep_update", !.i = q.i + 1,
                                !.oid = q.found[q.i + 1]], "recorded")
       ELSE SweepStep(Idle, "ok")
  /\ UNCHANGED orders

SweepJob == SweepFind \/ SweepUpdate \/ SweepHistory

NextSweep ==
  \/ InitiateAsync
  \/ Callback
  \/ Clock
  \/ SweepFind
  \/ SweepUpdate
  \/ SweepHistory

\* The external scheduler keeps invoking the job and the job runs to its end.
SpecSweep == Init /\ [][NextSweep]_vars /\ WF_vars(SweepJob)

\* ---------------------------------------------------------------- SpecCoupon
\* The creation and confirmation paths over coupons with and without a
\* minimum order amount: none, one the two-unit cart (200) reaches, one it
\* does not.
MinOrderAmounts == {<< >>, << 150 >>, << 250 >>}

InitCoupon ==
  /\ \E m \in MinOrderAmounts :
       catalog = [ShopCatalog EXCEPT !.coupon.minOrderAmount = m]
  /\ stock = [v \in Variants |-> InitStock]
  /\ usedCount = 0
  /\ orders = << >>
  /\ history = << >>
  /\ sold = [v \in Variants |-> 0]
  /\ confirms = << >>
  /\ refunds = << >>
  /\ last = Result("init", 0, "ok")
  /\ pre = [stock |-> stock, usedCount |-> usedCount, orders |-> << >>, history |-> << >>]
  /\ reqs = [r \in Procs |-> Idle]
  /\ served = 0

NextCoupon ==
  \/ VerifyAndCreate
  \/ CreateCOD
  \/ InitiateAsync
  \/ Callback

SpecCoupon == InitCoupon /\ [][NextCoupon]_vars

\* ---------------------------------------------------------------- SpecRazorpay
\* The synchronous gateway flow: quotes, verifyAndCreateOrder called with the
\* triple of any payment the gateway holds, and what the admin does with the
\* order afterwards.
VerifyPaid ==
  /\ NextId \in OrderIds
  /\ \E p \in GatewayPayments, c \in Checkouts, ct \in ClientTotals,
        up \in BOOLEAN, n \in BOOLEAN :
       verifyAndCreateOrder(p.razorpay_signature, c.items, c.couponCode, ct, up, n)
  /\ pre' = Snapshot
  /\ UNCHANGED << catalog, reqs, served >>

NextRazorpay ==
  \/ Quote
  \/ VerifyPaid
  \/ UpdateStatus
  \/ UpdateTracking
  \/ Refund

SpecRazorpay == Init /\ [][NextRazorpay]_vars

\* ---------------------------------------------------------------- SpecPricing
\* calculateOrderTotals over the prices and coupon rows the tables can hold.
\* normalPrice and offerPrice are validated as floats >= 0, offerPrice is
\* nullable; 100 is the price of the documented scenario.
Prices == (0 .. MaxPrice) \cup {100}

NullablePrices == {<< >>} \cup {<< n >> : n \in Prices}

CouponRows ==
  [ discountType   : {"PERCENTAGE", "FIXED"},
    discountValue  : {10, 50, 150},
    minOrderAmount : {<< >>, << 0 >>, << MaxPrice >>},
    maxDiscount    : {<< >>, << 0 >>, << 1 >>},
    isActive       : BOOLEAN,
    inWindow       : BOOLEAN,
    usageLimit     : {<< >>, << UsageLimit >>} ]

\* Carts whose lines all pass the product, variant and stock checks.
PricingCarts ==
  { Checkout(items, code) :
      items \in { << Line("P1", "V1", 1) >>,
                  << Line("P1", None, 2) >>,
                  << Line("P1", "V1", 1), Line("P1", "V2", 1) >>,
                  << Line("P1", "V2", 1), Line("P1", None, 2) >> },
      code \in {None, CouponCode} }

InitPricing ==
  /\ \E normalPrice \in Prices, offerPrice \in NullablePrices, c \in CouponRows :
       catalog = [ShopCatalog EXCEPT
                    !.price.P1 = [normalPrice |-> normalPrice, offerPrice |-> offerPrice],
                    !.coupon = c]
  /\ usedCount \in {0, UsageLimit}
  /\ stock = [v \in Variants |-> InitStock]
  /\ orders = << >>
  /\ history = << >>
  /\ sold = [v \in Variants |-> 0]
  /\ confirms = << >>
  /\ refunds = << >>
  /\ last = Result("init", 0, "ok")
  /\ pre = [stock |-> stock, usedCount |-> usedCount, orders |-> << >>, history |-> << >>]
  /\ reqs = [r \in Procs |-> Idle]
  /\ served = 0

PriceValidCart ==
  /\ \E c \in PricingCarts : calculateTotalsRequest(c.items, c.couponCode)
  /\ pre' = Snapshot
  /\ UNCHANGED << catalog, reqs, served >>

NextPricing == PriceValidCart

SpecPricing == InitPricing /\ [][NextPricing]_vars

\* ================================================================ claims
Terminal == {"CANCELLED", "REFUNDED", "DELIVERED"}

Rank(s) ==
  CASE s = "PENDING"    -> 0
    [] s = "CONFIRMED"  -> 1
    [] s = "PROCESSING" -> 2
    [] s = "SHIPPED"    -> 3
    [] s = "DELIVERED"  -> 4
    [] OTHER            -> 5

RefundSucceeded(o) ==
  last'.op = "processRefund" /\ last'.oid = o /\ last'.res = "ok"

\* C1: the quantities decremented from a variant, summed over all order
\* creations and confirmations in any interleaving, never exceed the stock S
\* the variant started with.
NoOversell == \A v \in Variants : sold[v] <= InitStock

\* C3: of the handlers in progress at one time for one merchant-transaction id
\* (callbacks, or a poll handing over to the callback handler), at most one has
\* performed the stock and coupon side effects of the PENDING to PAID
\* transition.
AtMostOneConfirmer ==
  \A r1, r2 \in Procs :
    (r1 # r2 /\ reqs[r1].applied /\ reqs[r2].applied)
      => reqs[r1].oid # reqs[r2].oid

\* C2: a success callback that directly follows a success callback for the same
\* merchant-transaction id decrements no stock and increments no coupon usage
\* again (each side effect happens exactly once in total).
DuplicateCallbackExactlyOnce ==
  [][ ( /\ last.op = "handlePhonePeCallback" /\ last.res = "success"
        /\ last'.op = "handlePhonePeCallback" /\ last'.res = "success"
        /\ last'.oid = last.oid )
      => (stock' = stock /\ usedCount' = usedCount) ]_vars

\* C4: every ProductVariant.stock is >= 0 in every reachable state.
StockNonNegative == \A v \in Variants : stock[v] >= 0

\* C5: the statuses appended to an order's TrackingHistory never go backward
\* in PENDING, CONFIRMED, PROCESSING, SHIPPED, DELIVERED, and CANCELLED and
\* REFUNDED appear only as the final entry.
MonotonicHistory ==
  \A o \in Created :
    \A i, j \in 1 .. Len(history[o]) :
      i < j => /\ history[o][i] \notin {"CANCELLED", "REFUNDED"}
               /\ Rank(history[o][i]) <= Rank(history[o][j])

\* C6: once an order's status is CANCELLED, REFUNDED or DELIVERED, no step
\* changes it to a different value.
TerminalAbsorbing ==
  [][ \A o \in Created :
        orders[o].status \in Terminal => orders'[o].status = orders[o].status ]_vars

\* C7: processRefund succeeds at most once for an order.
NoDoubleRefund == \A o \in Created : refunds[o] <= 1

\* C8 (as claimed): a successful processRefund adds, for every item carrying a
\* variant, that item's quantity to the variant's stock, and leaves the
\* variants the order does not reference unchanged.
RefundConservationPerItem ==
  [][ \A o \in Created :
        RefundSucceeded(o) =>
          LET items == orders[o].items IN
          /\ \A i \in 1 .. Len(items) :
               items[i].productVariantId # None =>
                 stock'[items[i].productVariantId]
                   = stock[items[i].productVariantId] + items[i].quantity
          /\ \A v \in Variants :
               (\A i \in 1 .. Len(items) : items[i].productVariantId # v)
                 => stock'[v] = stock[v] ]_vars

\* C8 (amended): a successful processRefund adds to every variant's stock the
\* sum of the quantities of the order's items that carry that variant (nothing
\* for a variant the order does not reference).
RefundConservation ==
  [][ \A o \in Created :
        RefundSucceeded(o) =>
          \A v \in Variants : stock'[v] = stock[v] + Units(orders[o].items, v) ]_vars

\* A refund succeeded on an order that lists one variant on two lines.
RefundConservationWitness ==
  /\ last.op = "processRefund" /\ last.res = "ok"
  /\ last.oid \in Created
  /\ Len(orders[last.oid].items) = 2
  /\ orders[last.oid].items[1].productVariantId # None
  /\ orders[last.oid].items[1].productVariantId
       = orders[last.oid].items[2].productVariantId

\* C9: processRefund on an order that is not PAID, or whose status is already
\* REFUNDED, or that has no stored original transaction id, is rejected
\* without a gateway call and leaves orders, stock and TrackingHistory as
\* they were.
RefundNotEligible == {"NotPaid", "AlreadyRefunded", "NoTransactionId"}

IneligibleRefundRejected ==
  [][ ( /\ last'.op = "processRefund"
        /\ last'.oid \in Created
        /\ \/ orders[last'.oid].paymentStatus # "PAID"
           \/ orders[last'.oid].status = "REFUNDED"
           \/ orders[last'.oid].txn = None )
      => /\ last'.res \in RefundNotEligible
         /\ last'.gw = None
         /\ UNCHANGED << stock, usedCount, orders, history, refunds >> ]_vars

\* A refund was asked for an order whose payment is still PENDING, and rejected.
IneligibleRefundWitness ==
  /\ last.op = "processRefund" /\ last.res = "NotPaid"
  /\ last.oid \in Created
  /\ orders[last.oid].paymentStatus = "PENDING"

\* C10: when the gateway refund call throws or answers success = false,
\* processRefund returns an error and orders, stock and TrackingHistory are as
\* before the call.
GatewayRefundFailureAborts ==
  [][ (last'.op = "processRefund" /\ last'.gw \in {"declined", "throws"})
      => /\ last'.res = "PaymentGatewayError"
         /\ UNCHANGED << stock, usedCount, orders, history, refunds >> ]_vars

\* The gateway declined the refund of a paid order.
GatewayRefundFailureWitness ==
  /\ last.op = "processRefund" /\ last.gw = "declined"
  /\ last.oid \in Created
  /\ orders[last.oid].paymentStatus = "PAID"

\* C11: a failed signature check (verifyAndCreateOrder) or a failed pricing
\* (product missing, product not ACTIVE, variant stock < quantity) in
\* verifyAndCreateOrder, initiatePhonePePayment or createCODOrder creates no
\* order row and no TrackingHistory entry and changes no stock and no coupon
\* usedCount: a call of these handlers that wrote anything wrote for a cart
\* whose every line priced, and for a signature that verifies.
CreationOps == {"verifyAndCreateOrder", "initiatePhonePePayment", "createCODOrder"}

LinePrices(stk, line) ==
  /\ line.productId \in DOMAIN ProductStatus
  /\ ProductStatus[line.productId] = "ACTIVE"
  /\ line.productVariantId # None => stk[line.productVariantId] >= line.quantity

FailuresAbortBeforePersistence ==
  last.op \in CreationOps =>
    /\ last.res \in {"PaymentVerificationFailed", "ProductNotFound",
                     "ProductUnavailable", "InsufficientStock"}
         => Snapshot = pre
    /\ Snapshot # pre
         => /\ last.oid \in Created \ DOMAIN pre.orders
            /\ \A i \in 1 .. Len(orders[last.oid].items) :
                 LinePrices(pre.stock, orders[last.oid].items[i])
            /\ last.op = "verifyAndCreateOrder" => orders[last.oid].sig = "sig_ok"

\* Pricing failed for want of stock, and there is no order.
FailuresAbortWitness ==
  /\ last.op \in CreationOps /\ last.res = "InsufficientStock"
  /\ Created = {}
  /\ \A v \in Variants : stock[v] = InitStock

\* C12: the subtotal, discount, shippingCost and totalAmount verifyAndCreateOrder
\* persists are those calculateOrderTotals gives for the cart, the coupon code
\* and the catalog as they are, whatever totals the client's orderData carries:
\* two calls that differ only in the client's totals persist the same amounts.
ClientTotalsNeverTrusted ==
  (last.op = "verifyAndCreateOrder" /\ last.res = "ok")
    => orders[last.oid].amounts
         = calculateOrderTotals(pre.stock, pre.usedCount, last.args.items,
                                last.args.couponCode).amounts

\* An order was created from orderData whose totals are not the server's.
ClientTotalsWitness ==
  /\ last.op = "verifyAndCreateOrder" /\ last.res = "ok"
  /\ last.args.totals # orders[last.oid].amounts
  /\ last.args.totals.totalAmount < orders[last.oid].amounts.totalAmount

\* C13: what handlePhonePeCallback does to the order's status and paymentStatus,
\* to the variants' stock and to the coupon's usedCount is a function of the
\* order as it was and of the gateway's status-check answer alone: two calls
\* whose bodies carry different codes come out the same.
CallbackCodeAdvisory ==
  (last.op = "handlePhonePeCallback" /\ last.oid \in Created) =>
    LET o == last.oid
        was == pre.orders[o]
        paid == last.gw = "PAYMENT_SUCCESS"
        failed == last.gw \in {"PAYMENT_ERROR", "PAYMENT_FAILED"}
    IN /\ orders[o].paymentStatus
            = (IF paid THEN "PAID" ELSE IF failed THEN "FAILED" ELSE was.paymentStatus)
       /\ orders[o].status = (IF paid THEN "CONFIRMED" ELSE was.status)
       /\ \A v \in Variants :
            stock[v] = pre.stock[v] - (IF paid THEN Units(was.items, v) ELSE 0)
       /\ usedCount
            = pre.usedCount + (IF paid /\ was.couponId # None THEN 1 ELSE 0)

\* A callback whose body said PAYMENT_SUCCESS was processed while the gateway's
\* status check said PAYMENT_ERROR.
CallbackCodeWitness ==
  /\ last.op = "handlePhonePeCallback" /\ last.oid \in Created
  /\ last.body = "PAYMENT_SUCCESS" /\ last.gw = "PAYMENT_ERROR"
  /\ orders[last.oid].paymentStatus = "FAILED"

\* C14: handlePhonePeCallback on an order in status PENDING / paymentStatus
\* PENDING, with a verified gateway status of PAYMENT_ERROR or PAYMENT_FAILED,
\* sets paymentStatus to FAILED, leaves status PENDING, appends no
\* TrackingHistory entry and changes no stock and no coupon usedCount.
FailedAsyncPayment ==
  ( /\ last.op = "handlePhonePeCallback"
    /\ last.oid \in Created
    /\ pre.orders[last.oid].status = "PENDING"
    /\ pre.orders[last.oid].paymentStatus = "PENDING"
    /\ last.gw \in {"PAYMENT_ERROR", "PAYMENT_FAILED"} )
  => /\ orders[last.oid].paymentStatus = "FAILED"
     /\ orders[last.oid].status = "PENDING"
     /\ history[last.oid] = pre.history[last.oid]
     /\ stock = pre.stock
     /\ usedCount = pre.usedCount

\* The gateway reported PAYMENT_FAILED for an order that was PENDING / PENDING
\* and had no history yet.
FailedAsyncPaymentWitness ==
  /\ last.op = "handlePhonePeCallback" /\ last.gw = "PAYMENT_FAILED"
  /\ last.oid \in Created
  /\ pre.orders[last.oid].paymentStatus = "PENDING"
  /\ orders[last.oid].status = "PENDING"
  /\ orders[last.oid].paymentStatus = "FAILED"
  /\ history[last.oid] = << >>

\* C15: when the notification dispatcher throws in verifyAndCreateOrder, the
\* success branch of handlePhonePeCallback, createCODOrder, updateOrderStatus,
\* updateTrackingInfo or processRefund, the handler still returns successfully
\* and what it persisted stays: the order, stock, coupon and TrackingHistory
\* rows are those of a call whose notification went out.
Committed(op, o) ==
  CASE op \in {"verifyAndCreateOrder", "createCODOrder"} ->
         /\ o \in Created \ DOMAIN pre.orders
         /\ orders[o].status = "CONFIRMED"
         /\ history[o] = << "CONFIRMED" >>
         /\ \A v \in Variants : stock[v] = pre.stock[v] - Units(orders[o].items, v)
         /\ usedCount = pre.usedCount + (IF orders[o].couponId # None THEN 1 ELSE 0)
    [] op \in {"handlePhonePeCallback", "checkPaymentStatus"} ->
         /\ orders[o].status = "CONFIRMED" /\ orders[o].paymentStatus = "PAID"
         /\ history[o] = Append(pre.history[o], "CONFIRMED")
         /\ \A v \in Variants : stock[v] = pre.stock[v] - Units(orders[o].items, v)
         /\ usedCount = pre.usedCount + (IF orders[o].couponId # None THEN 1 ELSE 0)
    [] op = "updateOrderStatus" ->
         /\ orders[o].status # pre.orders[o].status
         /\ history[o] = Append(pre.history[o], orders[o].status)
         /\ stock = pre.stock /\ usedCount = pre.usedCount
    [] op = "updateTrackingInfo" ->
         /\ orders[o].status = "SHIPPED"
         /\ history[o] = Append(pre.history[o], "SHIPPED")
         /\ stock = pre.stock /\ usedCount = pre.usedCount
    [] op = "processRefund" ->
         /\ orders[o].status = "REFUNDED" /\ orders[o].paymentStatus = "REFUNDED"
         /\ history[o] = Append(pre.history[o], "REFUNDED")
         /\ \A v \in Variants : stock[v] = pre.stock[v] + Units(orders[o].items, v)
         /\ usedCount = pre.usedCount
    [] OTHER -> FALSE

NotificationFailureIsolated ==
  /\ last.mail = "failed" => last.res \in {"ok", "success"}
  /\ last.mail # None => Committed(last.op, last.oid)

\* The dispatcher threw after a refund had been written.
NotificationFailureWitness ==
  /\ last.mail = "failed" /\ last.op = "processRefund"
  /\ orders[last.oid].status = "REFUNDED"

\* C16: the writes of verifyAndCreateOrder and createCODOrder are one atomic
\* write: an order row these handlers created, with no handler at work on it
\* any more, has all of its writes, the last of which is the CONFIRMED
\* TrackingHistory entry; a failed write leaves no order behind.
CreationAtomic ==
  \A o \in Created :
    ( /\ orders[o].paymentMethod = "COD" \/ orders[o].rzp # None
      /\ \A r \in Procs : reqs[r].pc = "idle" \/ reqs[r].oid # o )
    => history[o] = << "CONFIRMED" >>

\* C17: calculateOrderTotals and initiateRazorpayPayment leave the set of
\* orders, every variant's stock, the coupon's usedCount and all TrackingHistory
\* as they were, and a call that follows a call with the same items and coupon
\* code returns the same subtotal, discount, shippingCost and totalAmount.
QuoteOps == {"calculateOrderTotals", "initiateRazorpayPayment"}

StatedPrice(productId) ==
  LET product == catalog.price[productId] IN
  IF product.offerPrice # << >> THEN product.offerPrice[1] ELSE product.normalPrice

RECURSIVE StatedSubtotal(_)
StatedSubtotal(items) ==
  IF items = << >> THEN 0
  ELSE StatedPrice(Head(items).productId) * Head(items).quantity * 10000
       + StatedSubtotal(Tail(items))

StatedCouponMatches(code) ==
  /\ code = CouponCode
  /\ catalog.coupon.isActive
  /\ catalog.coupon.inWindow
  /\ (catalog.coupon.usageLimit # << >> => usedCount < catalog.coupon.usageLimit[1])

StatedDiscount(subtotal, code) ==
  LET c == catalog.coupon
      percentage == (subtotal * c.discountValue) \div 100
  IN IF ~StatedCouponMatches(code) THEN 0
     ELSE IF c.minOrderAmount # << >> /\ subtotal < c.minOrderAmount[1] * 10000 THEN 0
     ELSE IF c.discountType = "FIXED" THEN c.discountValue * 10000
     ELSE IF c.maxDiscount # << >> /\ percentage > c.maxDiscount[1] * 10000
       THEN c.maxDiscount[1] * 10000
     ELSE percentage

PricingResult ==
  (last.op = "calculateOrderTotals" /\ last.res = "ok") =>
    LET subtotal == StatedSubtotal(last.args.items)
        discount == StatedDiscount(subtotal, last.args.couponCode)
    IN /\ last.totals.subtotal = subtotal
       /\ last.totals.discount = discount
       /\ last.totals.shippingCost = 0
       /\ last.totals.totalAmount = subtotal - discount

\* C19: whenever an order's status changes to REFUNDED, its paymentStatus was
\* PAID in the state immediately before the change.
RefundedOnlyFromPaid ==
  \A o \in Created \cap DOMAIN pre.orders :
    (orders[o].status = "REFUNDED" /\ pre.orders[o].status # "REFUNDED")
      => pre.orders[o].paymentStatus = "PAID"

\* C20: an order that is PENDING/PENDING and older than the 24-hour window is,
\* with cancelExpiredPendingOrders invoked again and again, eventually
\* CANCELLED/FAILED with one CANCELLED TrackingHistory entry; the sweep writes
\* to no order that is not PENDING/PENDING and older than the window at the
\* time of the write, and to no stock or coupon counter.
ExpiredPending(row) ==
  row.status = "PENDING" /\ row.paymentStatus = "PENDING" /\ row.old

Swept(o) ==
  /\ orders[o].status = "CANCELLED" /\ orders[o].paymentStatus = "FAILED"
  /\ Cardinality({k \in DOMAIN history[o] : history[o][k] = "CANCELLED"}) = 1

SweepTouchesOnlyExpiredPending ==
  last.op = "cancelExpiredPendingOrders" =>
    /\ stock = pre.stock /\ usedCount = pre.usedCount
    /\ \A o \in Created :
         orders[o] # pre.orders[o] => ExpiredPending(pre.orders[o])

ExpiredPendingEventuallySwept ==
  \A o \in OrderIds :
    (o \in Created /\ ExpiredPending(orders[o])) ~> (o \in Created /\ Swept(o))

ExpiredSweep ==
  /\ [](SweepTouchesOnlyExpiredPending)
  /\ ExpiredPendingEventuallySwept

\* C21: after initiatePhonePePayment returns, the new order is PENDING/PENDING
\* with the merchant-transaction id stored and no stock and no usedCount has
\* changed; after createCODOrder returns, the new order is CONFIRMED/PENDING
\* with paymentMethod COD, each item variant's stock is lower by its quantity
\* and the applied coupon's usedCount is higher by 1.
NewlyCreated(o) == o \in Created /\ o \notin DOMAIN pre.orders

InventoryAtConfirmation ==
  /\ (last.op = "initiatePhonePePayment" /\ last.res = "ok") =>
       /\ NewlyCreated(last.oid)
       /\ orders[last.oid].status = "PENDING"
       /\ orders[last.oid].paymentStatus = "PENDING"
       /\ orders[last.oid].mtid # 0
       /\ stock = pre.stock
       /\ usedCount = pre.usedCount
  /\ (last.op = "createCODOrder" /\ last.res = "ok") =>
       /\ NewlyCreated(last.oid)
       /\ orders[last.oid].status = "CONFIRMED"
       /\ orders[last.oid].paymentStatus = "PENDING"
       /\ orders[last.oid].paymentMethod = "COD"
       /\ \A v \in Variants :
            stock[v] = pre.stock[v] - Units(last.args.items, v)
       /\ usedCount = pre.usedCount
                        + (IF orders[last.oid].amounts.discount > 0 THEN 1 ELSE 0)

\* A cash-on-delivery order with a discount was created: stock went down and
\* the coupon was counted.
InventoryAtConfirmationWitness ==
  /\ last.op = "createCODOrder" /\ last.res = "ok"
  /\ orders[last.oid].amounts.discount > 0
  /\ usedCount = pre.usedCount + 1
  /\ \E v \in Variants : stock[v] < pre.stock[v]

\* C22: in verifyAndCreateOrder, createCODOrder and the callback success
\* branch the coupon's usedCount is incremented, and the order linked to the
\* coupon, only if the coupon produced the order's discount; a coupon that
\* matched but was ignored because the subtotal is under minOrderAmount is not
\* counted.
CouponCountedOnlyWhenApplied ==
  /\ usedCount # pre.usedCount =>
       (last.oid \in Created /\ orders[last.oid].amounts.discount > 0)
  /\ \A o \in Created :
       orders[o].couponId # None => orders[o].amounts.discount > 0

\* C23: for an order that is not yet PAID and a verified gateway status, a
\* status poll through checkPaymentStatus leaves the order's status and
\* paymentStatus, the stock and the coupon's usedCount as a webhook delivery
\* through handlePhonePeCallback for that status would.
StatusOf(code) == CHOOSE resp \in GatewayStatuses : resp.code = code

PollMatchesWebhook ==
  ( /\ last.op = "checkPaymentStatus"
    /\ last.gw # None
    /\ last.oid \in DOMAIN pre.orders
    /\ pre.orders[last.oid].paymentStatus # "PAID" ) =>
    LET row == pre.orders[last.oid]
        resp == StatusOf(last.gw)
        webhook == CallbackUpdate(row, resp, "txn")
    IN /\ orders[last.oid].status = webhook.status
       /\ orders[last.oid].paymentStatus = webhook.paymentStatus
       /\ stock = IF SideEffectsDue(row, resp)
                    THEN DecrementStock(pre.stock, row.items) ELSE pre.stock
       /\ usedCount = IF SideEffectsDue(row, resp) /\ row.couponId # None
                        THEN pre.usedCount + 1 ELSE pre.usedCount

\* C24: an order is persisted as CONFIRMED/PAID by verifyAndCreateOrder only
\* if the payment whose signature was verified was made for an amount equal
\* to the order's recomputed totalAmount.
PaidAmountMatchesOrder ==
  \A o \in Created :
    orders[o].sig # None =>
      PaymentOf(orders[o].sig).amount = orders[o].amounts.totalAmount

\* C25: submitting the same valid (razorpay_order_id, razorpay_payment_id,
\* razorpay_signature) triple to verifyAndCreateOrder more than once creates
\* at most one Order row, and stock is decremented and the coupon counted at
\* most once for that payment.
OrdersOfPayment(razorpay_payment_id) ==
  {o \in Created : orders[o].rzp = razorpay_payment_id}

OneOrderPerPayment ==
  \A p \in GatewayPayments :
    Cardinality(OrdersOfPayment(p.razorpay_payment_id)) <= 1

\* C26: once an order's paymentStatus is PAID, the only value it changes to
\* is REFUNDED, whatever handlePhonePeCallback, checkPaymentStatus,
\* cancelExpiredPendingOrders, updateOrderStatus and processRefund do and
\* however their storage steps interleave.
PaidNeverRegresses ==
  \A o \in Created \cap DOMAIN pre.orders :
    (pre.orders[o].paymentStatus = "PAID" /\ orders[o].paymentStatus # "PAID")
      => orders[o].paymentStatus = "REFUNDED"

\* The same, for the writes of the sweep alone.
SweepKeepsPaid ==
  last.op = "cancelExpiredPendingOrders" => PaidNeverRegresses

\* C27: whenever no operation on an order is in progress and its
\* TrackingHistory is non-empty, the status of the most recently appended
\* entry is the order's current status.
HistoryAgreesWithStatus ==
  (\A r \in Procs : reqs[r].pc = "idle") =>
    \A o \in Created :
      history[o] # << >> => history[o][Len(history[o])] = orders[o].status

\* C28: a coupon with a usageLimit L has usedCount <= L in every reachable
\* state, for any interleaving of order creations and payment confirmations
\* that use the coupon.
UsageLimitRespected ==
  catalog.coupon.usageLimit # << >> => usedCount <= catalog.coupon.usageLimit[1]

\* C29: for every cart with positive prices and quantities and every coupon,
\* calculateOrderTotals returns 0 <= discount <= subtotal and totalAmount >= 0.
PositivePrices ==
  \A p \in DOMAIN catalog.price :
    /\ catalog.price[p].normalPrice > 0
    /\ catalog.price[p].offerPrice # << >> => catalog.price[p].offerPrice[1] > 0

TotalsNeverNegative ==
  (last.op = "calculateOrderTotals" /\ last.res = "ok" /\ PositivePrices) =>
    /\ 0 <= last.totals.discount
    /\ last.totals.discount <= last.totals.subtotal
    /\ last.totals.totalAmount >= 0

\* C30: an order created by verifyAndCreateOrder through the synchronous
\* gateway (paymentStatus PAID, status not REFUNDED, gateway payment id stored)
\* passes the eligibility checks of processRefund, and is REFUNDED when the
\* gateway accepts the refund.
PaidThroughSyncGateway(row) ==
  /\ row.paymentStatus = "PAID"
  /\ row.status # "REFUNDED"
  /\ row.rzp # None

SyncPaidOrderRefundable ==
  ( /\ last.op = "processRefund"
    /\ last.oid \in DOMAIN pre.orders
    /\ PaidThroughSyncGateway(pre.orders[last.oid]) ) =>
    /\ last.res \in {"ok", "PaymentGatewayError"}
    /\ last.gw = "success" => orders[last.oid].status = "REFUNDED"

====
